---- MODULE Spec2Model ----
(***************************************************************************)
(* A model of scripts/generate_video.py: one run of main(), from the       *)
(* command line to the process exit, with the remote service, the file     *)
(* system and the Python runtime as the environment.                       *)
(*                                                                         *)
(* Python strings are sequences of one-character strings, so that lower(), *)
(* startswith(), pathlib's suffix/stem/parent and str.format are computed  *)
(* and not assumed.  An optional value is a sequence of length 0 (None) or *)
(* 1 (the value).  A dict, an argparse namespace and a keyword-argument    *)
(* set are functions on the set of the keys they hold.                     *)
(***************************************************************************)
EXTENDS Integers, Sequences, FiniteSets, TLC

(***************************************************************************)
(* Bounds of the model.                                                    *)
(***************************************************************************)
\* Longest result list the remote service returns.
MaxItems == 2
\* Most status fetches the service answers before the model stops following a run.
MaxPolls == 2
\* Most --element and most --style options on one command line.
MaxRefs == 2
\* Largest --count on a command line.
MaxCount == 2
\* Requested durations range over (4 - DurationMargin)..(8 + DurationMargin).
DurationMargin == 5

(***************************************************************************)
(* Python values.                                                          *)
(***************************************************************************)
None == <<>>

Some(x) == <<x>>

\* bool(x) of an optional string: None and "" are false.
Truthy(o) == o # None /\ o[1] # <<>>

\* d.get(k), None when the key is missing.
Get(d, k) == IF k \in DOMAIN d THEN Some(d[k]) ELSE None

Abs(n) == IF n < 0 THEN 0 - n ELSE n

LowerCase == <<"a", "b", "c", "d", "e", "f", "g", "h", "i", "j", "k", "l", "m", "n", "o", "p", "q", "r", "s", "t", "u", "v", "w", "x", "y", "z">>

UpperCase == <<"A", "B", "C", "D", "E", "F", "G", "H", "I", "J", "K", "L", "M", "N", "O", "P", "Q", "R", "S", "T", "U", "V", "W", "X", "Y", "Z">>

Digits == <<"0", "1", "2", "3", "4", "5", "6", "7", "8", "9">>

\* The lower-case letter of each upper-case letter.
ToLower ==
    [c \in {UpperCase[k] : k \in 1..Len(UpperCase)} |->
        LowerCase[CHOOSE k \in 1..Len(UpperCase) : UpperCase[k] = c]]

LowerChar(c) == IF c \in DOMAIN ToLower THEN ToLower[c] ELSE c

\* str.lower()
Lower(s) == [k \in 1..Len(s) |-> LowerChar(s[k])]

\* str.startswith(prefix)
StartsWith(s, prefix) ==
    Len(s) >= Len(prefix) /\ SubSeq(s, 1, Len(prefix)) = prefix

\* str.rfind(c), 1-based; 0 when c does not occur.
RFind(s, c) ==
    IF \E k \in 1..Len(s) : s[k] = c
    THEN CHOOSE k \in 1..Len(s) : s[k] = c /\ \A j \in (k + 1)..Len(s) : s[j] # c
    ELSE 0

\* str(n) of a natural number.
RECURSIVE IntToStr(_)
IntToStr(n) ==
    IF n < 10 THEN <<Digits[n + 1]>>
    ELSE IntToStr(n \div 10) \o <<Digits[(n % 10) + 1]>>

(***************************************************************************)
(* pathlib.Path of a normalised relative path (no "//", no "./", no        *)
(* trailing "/").                                                          *)
(***************************************************************************)
\* Path.name: what follows the last "/".
PathName(p) == SubSeq(p, RFind(p, "/") + 1, Len(p))

\* Path.parent: what precedes the last "/"; "." when there is none.
PathParent(p) ==
    IF RFind(p, "/") = 0 THEN <<".">> ELSE SubSeq(p, 1, RFind(p, "/") - 1)

\* Path.suffix: from the last "." of the name, unless that dot is the
\* name's first or last character.
PathSuffix(p) ==
    LET name == PathName(p)
        dot == RFind(name, ".")
    IN  IF 1 < dot /\ dot < Len(name) THEN SubSeq(name, dot, Len(name)) ELSE <<>>

\* Path.stem: the name without its suffix.
PathStem(p) ==
    LET name == PathName(p)
    IN  SubSeq(name, 1, Len(name) - Len(PathSuffix(p)))

\* str(parent / name): the "." parent is dropped.
PathJoin(parent, name) ==
    IF parent = <<".">> THEN name ELSE parent \o <<"/">> \o name

\* Path.with_suffix(suffix) of a path that has a name.
PathWithSuffix(p, suffix) ==
    PathJoin(PathParent(p), PathStem(p) \o suffix)

(***************************************************************************)
(* Module-level tables and functions of generate_video.py.                 *)
(***************************************************************************)
Veo31Fast == <<"v", "e", "o", "-", "3", ".", "1", "-", "f", "a", "s", "t", "-", "g", "e", "n", "e", "r", "a", "t", "e", "-", "p", "r", "e", "v", "i", "e", "w">>

Veo31 == <<"v", "e", "o", "-", "3", ".", "1", "-", "g", "e", "n", "e", "r", "a", "t", "e", "-", "p", "r", "e", "v", "i", "e", "w">>

Veo30 == <<"v", "e", "o", "-", "3", ".", "0", "-", "g", "e", "n", "e", "r", "a", "t", "e", "-", "0", "0", "1">>

Veo30Fast == <<"v", "e", "o", "-", "3", ".", "0", "-", "f", "a", "s", "t", "-", "g", "e", "n", "e", "r", "a", "t", "e", "-", "0", "0", "1">>

Veo20 == <<"v", "e", "o", "-", "2", ".", "0", "-", "g", "e", "n", "e", "r", "a", "t", "e", "-", "0", "0", "1">>

\* The alias table, as the sequence of its (alias, model) items.
MODEL_ALIASES ==
    << <<<<"f", "a", "s", "t">>, Veo31Fast>>,
       <<<<"q", "u", "a", "l", "i", "t", "y">>, Veo31>>,
       <<<<"3", ".", "1">>, Veo31>>,
       <<<<"3", ".", "1", "f", "a", "s", "t">>, Veo31Fast>>,
       <<<<"3", ".", "0">>, Veo30>>,
       <<<<"3", ".", "0", "f", "a", "s", "t">>, Veo30Fast>>,
       <<<<"2", ".", "0">>, Veo20>>,
       <<<<"2">>, Veo20>> >>

VALID_DURATIONS == {4, 6, 8}

\* The orders in which a Python runtime iterates the set literal {4, 6, 8}:
\* by hash slot (CPython: 8, 4, 6) or by insertion (4, 6, 8).  The language
\* leaves the order to the implementation.
SetIterationOrders == {<<8, 4, 6>>, <<4, 6, 8>>}

\* A lookup slip: the alias is looked up as typed, without lower().
resolve_model_CaseSensitive(name) ==
    IF \E k \in 1..Len(MODEL_ALIASES) : MODEL_ALIASES[k][1] = name
    THEN MODEL_ALIASES[CHOOSE k \in 1..Len(MODEL_ALIASES) : MODEL_ALIASES[k][1] = name][2]
    ELSE name

\* MODEL_ALIASES.get(name.lower(), name)
resolve_model(name) ==
    IF \E k \in 1..Len(MODEL_ALIASES) : MODEL_ALIASES[k][1] = Lower(name)
    THEN MODEL_ALIASES[CHOOSE k \in 1..Len(MODEL_ALIASES) :
                           MODEL_ALIASES[k][1] = Lower(name)][2]
    ELSE name

\* An even-rounding slip: the requested value rounded down to an even number.
nearest_valid_duration_RoundsDown(order, d) == d - (d % 2)

\* min(VALID_DURATIONS, key=lambda x: abs(x - d)): the first element, in
\* iteration order, whose key is the least.
nearest_valid_duration(order, d) ==
    order[CHOOSE k \in 1..Len(order) :
              /\ \A j \in 1..Len(order) : Abs(order[k] - d) <= Abs(order[j] - d)
              /\ \A j \in 1..(k - 1) : Abs(order[j] - d) > Abs(order[k] - d)]

MimeJpeg == <<"i", "m", "a", "g", "e", "/", "j", "p", "e", "g">>

MimePng == <<"i", "m", "a", "g", "e", "/", "p", "n", "g">>

MimeWebp == <<"i", "m", "a", "g", "e", "/", "w", "e", "b", "p">>

mime_map ==
    << <<<<".", "j", "p", "g">>, MimeJpeg>>,
       <<<<".", "j", "p", "e", "g">>, MimeJpeg>>,
       <<<<".", "p", "n", "g">>, MimePng>>,
       <<<<".", "w", "e", "b", "p">>, MimeWebp>> >>

\* load_image(path) of a readable file: its bytes (named by the path they
\* were read from) and the MIME type of its lowercased suffix.
load_image(path) ==
    LET ext == Lower(PathSuffix(path))
    IN  [image_bytes |-> path,
         mime_type |->
             IF \E k \in 1..Len(mime_map) : mime_map[k][1] = ext
             THEN mime_map[CHOOSE k \in 1..Len(mime_map) : mime_map[k][1] = ext][2]
             ELSE MimePng]

(***************************************************************************)
(* The command lines and environments a run starts from.  argv maps each   *)
(* option given on the command line to its value; each family below varies *)
(* one group of options around a plain text-to-video invocation.           *)
(***************************************************************************)
\* f with key k set to v.
With(f, k, v) == [x \in DOMAIN f \cup {k} |-> IF x = k THEN v ELSE f[x]]

\* The sequences without repetition over S of length at most n.
SeqsUpTo(S, n) ==
    UNION {{q \in [1..m -> S] : \A a, b \in 1..m : a # b => q[a] # q[b]} : m \in 0..n}

ArgKey == <<"a", "r", "g", "k", "e", "y">>

EnvKey == <<"e", "n", "v", "k", "e", "y">>

Prompt == <<"s", "u", "n", "s", "e", "t">>

OutMp4 == <<"o", "u", "t", ".", "m", "p", "4">>

\* generate_video.py --prompt sunset --filename out.mp4 --api-key argkey
PlainLine == [prompt |-> Prompt, filename |-> OutMp4, api_key |-> ArgKey]

Models ==
    { <<"f", "a", "s", "t">>, <<"F", "A", "S", "T">>, <<"Q", "u", "a", "l", "i", "t", "y">>,
      <<"3", ".", "0", "f", "a", "s", "t">>, <<"2", ".", "0">>, <<"2">>,
      Veo20, Veo30,
      <<"V", "e", "o", "-", "2", ".", "0", "-", "g", "e", "n", "e", "r", "a", "t", "e", "-", "0", "0", "1">>,
      <<"m", "o", "d", "e", "l", "s", "/", "v", "e", "o", "-", "2", ".", "0", "-", "g", "e", "n", "e", "r", "a", "t", "e", "-", "0", "0", "1">>,
      <<"c", "u", "s", "t", "o", "m">> }

Durations ==
    ((4 - DurationMargin)..(8 + DurationMargin)) \cup {-1000000, 1000000}

Filenames ==
    { <<"o", "u", "t">>, <<"o", "u", "t", ".", "w", "e", "b", "m">>,
      <<"c", "l", "i", "p", ".", "m", "p", "4">>,
      <<"d", "/", "c", "l", "i", "p", ".", "m", "p", "4">>, <<"d", "/", "o", "u", "t">>,
      <<".", "e", "n", "v">>, <<"a", ".", "b", ".", "c">> }

PhotoPng == <<"p", "h", "o", "t", "o", ".", "p", "n", "g">>

ElementPaths == {<<"o", "b", "j", ".", "J", "P", "G">>, <<"i", "m", "g">>}

StylePaths == {<<"r", "e", "f", ".", "w", "e", "b", "p">>, <<"s", ".", "j", "p", "e", "g">>}

ModelLines == {With(PlainLine, "model", m) : m \in Models}

DurationLines == {With(PlainLine, "duration", d) : d \in Durations}

OutputLines ==
    {With(With(PlainLine, "filename", f), "count", c) : f \in Filenames, c \in 1..MaxCount}

OptionLines ==
    { [prompt |-> Prompt, filename |-> OutMp4, api_key |-> ArgKey,
       aspect_ratio |-> <<"9", ":", "1", "6">>, resolution |-> <<"1", "0", "8", "0", "p">>,
       negative_prompt |-> <<"b", "l", "u", "r">>,
       person_generation |-> <<"a", "l", "l", "o", "w", "_", "a", "l", "l">>],
      With(PlainLine, "last_frame", <<"e", "n", "d", ".", "p", "n", "g">>) }

ImageLines ==
    LET withInput == {PlainLine, With(PlainLine, "input_image", PhotoPng)}
        withElement ==
            withInput \cup
            {With(l, "element", e) : l \in withInput, e \in SeqsUpTo(ElementPaths, MaxRefs) \ {<<>>}}
    IN  withElement \cup
        {With(l, "style", s) : l \in withElement, s \in SeqsUpTo(StylePaths, MaxRefs) \ {<<>>}}

\* With and without --api-key (also the empty string), --list-models, and the
\* required --prompt and --filename.
CredentialLines ==
    LET required == {[prompt |-> Prompt, filename |-> OutMp4], [x \in {} |-> None]}
        withList == required \cup {With(l, "list_models", TRUE) : l \in required}
    IN  withList \cup {With(l, "api_key", k) : l \in withList, k \in {<<>>, ArgKey}}

Environs == {[x \in {} |-> None], [GEMINI_API_KEY |-> EnvKey]}

(***************************************************************************)
(* argparse, lines 65-117.                                                 *)
(***************************************************************************)
\* The options the parser declares (add_argument, lines 87-115).
Options ==
    {"prompt", "filename", "model", "duration", "aspect_ratio", "resolution",
     "negative_prompt", "count", "person_generation", "input_image", "element",
     "style", "api_key", "list_models"}

\* parse_args() rejects the command line (and exits with status 2): an
\* option the parser does not declare, or a required option missing.
ParseFails(line) ==
    \/ DOMAIN line \ Options # {}
    \/ "prompt" \notin DOMAIN line
    \/ "filename" \notin DOMAIN line

\* The namespace parse_args() returns: the given values, the declared
\* defaults, and None for an optional option that was not given.
ParseArgs(line) ==
    [prompt |-> line.prompt,
     filename |-> line.filename,
     model |-> IF "model" \in DOMAIN line THEN line.model ELSE <<"f", "a", "s", "t">>,
     duration |-> IF "duration" \in DOMAIN line THEN line.duration ELSE 8,
     aspect_ratio |->
         IF "aspect_ratio" \in DOMAIN line THEN line.aspect_ratio ELSE <<"1", "6", ":", "9">>,
     resolution |-> Get(line, "resolution"),
     negative_prompt |-> Get(line, "negative_prompt"),
     count |-> IF "count" \in DOMAIN line THEN line.count ELSE 1,
     person_generation |-> Get(line, "person_generation"),
     input_image |-> Get(line, "input_image"),
     element |-> Get(line, "element"),
     style |-> Get(line, "style"),
     api_key |-> Get(line, "api_key"),
     list_models |-> "list_models" \in DOMAIN line]

(***************************************************************************)
(* What the remote service can answer.                                     *)
(***************************************************************************)
VideoData == <<"m", "p", "4", "d", "a", "t", "a">>

VideoUri == <<"h", "t", "t", "p", "s", ":", "/", "/", "h", "/", "v">>

\* video.video of one generated video: inline bytes, a URI, both or neither.
Videos == [video_bytes : {None, Some(VideoData)}, uri : {None, Some(VideoUri)}]

\* operation.response of a finished operation: None, or a response whose
\* generated_videos is None or a list of at most MaxItems videos.
Responses ==
    {None, Some([generated_videos |-> None])} \cup
    {Some([generated_videos |-> Some(g)]) :
        g \in UNION {[1..n -> Videos] : n \in 0..MaxItems}}

\* The operation handles generate_videos() and operations.get() return.
Operations ==
    {[done |-> FALSE, response |-> None]} \cup
    {[done |-> TRUE, response |-> r] : r \in Responses}

(***************************************************************************)
(* The state of a run.                                                     *)
(***************************************************************************)
VARIABLES
    argv,             \* the options given on the command line
    environ,          \* os.environ
    pc,               \* the statement of main() the run is at
    api_key,          \* main's local api_key
    model,            \* main's local model
    duration,         \* main's local duration
    input_image,      \* main's local input_image
    config_kwargs,    \* main's local config_kwargs
    reference_images, \* main's local reference_images
    generate_kwargs,  \* the keyword arguments generate_videos() was called with
    operation,        \* main's local operation
    i,                \* the number of generated videos the for loop has taken
    saved,            \* main's local saved
    opened,           \* the image files load_image() was asked to read, in order
    submits,          \* calls of client.models.generate_videos
    waits,            \* calls of time.sleep
    fetches,          \* calls of client.operations.get
    writes,           \* the output files opened for writing or fetched, in order
    stdout,           \* what was printed to sys.stdout
    stderr,           \* what was printed to sys.stderr
    raised,           \* the call that raised an exception, "" if none did
    exit_code         \* the process exit status, None while running

vars ==
    <<argv, environ, pc, api_key, model, duration, input_image, config_kwargs,
      reference_images, generate_kwargs, operation, i, saved, opened, submits,
      waits, fetches, writes, stdout, stderr, raised, exit_code>>

args == ParseArgs(argv)

InitLocals ==
    /\ pc = "parse_args"
    /\ api_key = None
    /\ model = <<>>
    /\ duration = 0
    /\ input_image = None
    /\ config_kwargs = [x \in {} |-> None]
    /\ reference_images = <<>>
    /\ generate_kwargs = None
    /\ operation = None
    /\ i = 0
    /\ saved = <<>>
    /\ opened = <<>>
    /\ submits = 0
    /\ waits = 0
    /\ fetches = 0
    /\ writes = <<>>
    /\ stdout = <<>>
    /\ stderr = <<>>
    /\ raised = ""
    /\ exit_code = None

Init ==
    /\ \/ argv \in CredentialLines /\ environ \in Environs
       \/ /\ argv \in ModelLines \cup DurationLines \cup OutputLines
                      \cup OptionLines \cup ImageLines
          /\ environ = [x \in {} |-> None]
    /\ InitLocals

\* print(..., file=sys.stderr)
Err(msg, n) == Append(stderr, [msg |-> msg, n |-> n])

\* print(...)
Out(msg, n) == Append(stdout, [msg |-> msg, n |-> n])

\* sys.exit(code), or main() returning (code 0).
Exit(code) ==
    /\ pc' = "exit"
    /\ exit_code' = Some(code)

\* An exception no handler catches: the traceback goes to stderr and the
\* interpreter exits with status 1.
Raise(call) ==
    /\ pc' = "exit"
    /\ exit_code' = Some(1)
    /\ raised' = call
    /\ stderr' = Err("traceback", 0)

(***************************************************************************)
(* The decisions main() takes, as functions of what it has in hand.        *)
(***************************************************************************)
EmptyDict == [x \in {} |-> None]

\* {key: o} when the optional value o is truthy, {} otherwise.
Entry(key, o) == IF Truthy(o) THEN key :> o[1] ELSE EmptyDict

\* A precedence slip: the environment variable wins over the argument.
EffectiveKey_EnvironmentFirst(arg, env) == IF Truthy(env) THEN env ELSE arg

\* args.api_key or os.environ.get("GEMINI_API_KEY")
EffectiveKey(arg, env) == IF Truthy(arg) THEN arg ELSE env

\* not api_key and not args.list_models
MissingKey(key, list_models) == ~Truthy(key) /\ ~list_models

\* A suppression slip: the key is always sent, False outside veo-2.
EnhancePrompt_ExplicitFalse(m) ==
    [enhance_prompt |-> StartsWith(m, <<"v", "e", "o", "-", "2">>)]

\* The enhance_prompt entry of config_kwargs.
EnhancePrompt(m) ==
    IF StartsWith(m, <<"v", "e", "o", "-", "2">>)
    THEN [enhance_prompt |-> TRUE]
    ELSE EmptyDict

\* config_kwargs as built before the reference images are loaded.
Config(a, m, d) ==
    [number_of_videos |-> a.count, duration_seconds |-> d, aspect_ratio |-> a.aspect_ratio]
    @@ EnhancePrompt(m)
    @@ Entry("resolution", a.resolution)
    @@ Entry("negative_prompt", a.negative_prompt)
    @@ Entry("person_generation", a.person_generation)

\* An order slip: the element references are taken last first.
Elements_Reversed(a) ==
    IF a.element = None THEN <<>>
    ELSE [k \in 1..Len(a.element[1]) |-> a.element[1][Len(a.element[1]) + 1 - k]]

\* args.element or [], args.style or []
Elements(a) == IF a.element = None THEN <<>> ELSE a.element[1]

Styles(a) == IF a.style = None THEN <<>> ELSE a.style[1]

\* A guard slip: an empty list of videos is not taken for "no videos".
NoResults_MissesEmptyList(op) ==
    \/ op.response = None
    \/ op.response[1].generated_videos = None

\* not operation.response or not operation.response.generated_videos
NoResults(op) ==
    \/ op.response = None
    \/ op.response[1].generated_videos = None
    \/ op.response[1].generated_videos[1] = <<>>

\* operation.response.generated_videos of an operation that has results.
GeneratedVideos(op) == op.response[1].generated_videos[1]

\* An indexing slip: the numbered names start at 0.
OutPath_ZeroBased(output_path, count, idx) ==
    IF count > 1
    THEN PathJoin(PathParent(output_path),
                  PathStem(output_path) \o <<"-">> \o IntToStr(idx)
                  \o (IF PathSuffix(output_path) # <<>>
                      THEN PathSuffix(output_path)
                      ELSE <<".", "m", "p", "4">>))
    ELSE IF PathSuffix(output_path) # <<>>
         THEN output_path
         ELSE PathWithSuffix(output_path, <<".", "m", "p", "4">>)

\* The path the video at 0-based position idx is written to.
OutPath(output_path, count, idx) ==
    IF count > 1
    THEN PathJoin(PathParent(output_path),
                  PathStem(output_path) \o <<"-">> \o IntToStr(idx + 1)
                  \o (IF PathSuffix(output_path) # <<>>
                      THEN PathSuffix(output_path)
                      ELSE <<".", "m", "p", "4">>))
    ELSE IF PathSuffix(output_path) # <<>>
         THEN output_path
         ELSE PathWithSuffix(output_path, <<".", "m", "p", "4">>)

\* A precedence slip: the URI is tried before the inline bytes.
ItemCase_UriFirst(v) ==
    IF Truthy(v.uri) THEN "uri"
    ELSE IF Truthy(v.video_bytes) THEN "bytes"
    ELSE "none"

\* Which branch of the per-item if/elif/else a video takes.
ItemCase(v) ==
    IF Truthy(v.video_bytes) THEN "bytes"
    ELSE IF Truthy(v.uri) THEN "uri"
    ELSE "none"

\* The URL a video's URI is fetched from.
FetchUrl(uri, key) ==
    IF \E k \in 1..Len(uri) : uri[k] = "?"
    THEN uri \o <<"&", "k", "e", "y", "=">> \o key
    ELSE uri \o <<"?", "k", "e", "y", "=">> \o key

\* A loop slip: break where the code has continue.
AfterSkip_Breaks(idx, n) == n

\* The loop position after a video with no data: continue goes on with the
\* next video of the n.
AfterSkip(idx, n) == idx + 1

(***************************************************************************)
(* The steps of main().                                                    *)
(***************************************************************************)
\* args = parser.parse_args()
ParseCommandLine ==
    /\ pc = "parse_args"
    /\ IF ParseFails(argv)
       THEN /\ Exit(2)
            /\ stderr' = Err("usage", 0)
       ELSE /\ pc' = "api_key"
            /\ UNCHANGED <<exit_code, stderr>>
    /\ UNCHANGED <<argv, environ, api_key, model, duration, input_image, config_kwargs,
                   reference_images, generate_kwargs, operation, i, saved, opened,
                   submits, waits, fetches, writes, stdout, raised>>

\* The credential: the --api-key argument, else the environment variable;
\* exit 1 when there is none and this is no --list-models run.
ResolveCredential ==
    /\ pc = "api_key"
    /\ api_key' = EffectiveKey(args.api_key, Get(environ, "GEMINI_API_KEY"))
    /\ IF MissingKey(api_key', args.list_models)
       THEN /\ Exit(1)
            /\ stderr' = Err("no_api_key", 0)
       ELSE /\ pc' = "client"
            /\ UNCHANGED <<exit_code, stderr>>
    /\ UNCHANGED <<argv, environ, model, duration, input_image, config_kwargs,
                   reference_images, generate_kwargs, operation, i, saved, opened,
                   submits, waits, fetches, writes, stdout, raised>>

\* client = genai.Client(api_key=api_key).  The library refuses to build a
\* client without a key unless it finds one elsewhere in its environment.
CreateClient ==
    /\ pc = "client"
    /\ \E ok \in IF Truthy(api_key) THEN {TRUE} ELSE BOOLEAN :
          IF ok
          THEN /\ pc' = IF args.list_models THEN "list_models" ELSE "resolve_model"
               /\ UNCHANGED <<exit_code, stderr, raised>>
          ELSE Raise("Client")
    /\ UNCHANGED <<argv, environ, api_key, model, duration, input_image, config_kwargs,
                   reference_images, generate_kwargs, operation, i, saved, opened,
                   submits, waits, fetches, writes, stdout>>

\* --list-models: print the remote Veo models and the alias table, return.
ListModels ==
    /\ pc = "list_models"
    /\ \E ok \in BOOLEAN :
          IF ok
          THEN /\ stdout' = Out("aliases", Len(MODEL_ALIASES))
               /\ Exit(0)
               /\ UNCHANGED <<stderr, raised>>
          ELSE /\ Raise("models.list")
               /\ UNCHANGED stdout
    /\ UNCHANGED <<argv, environ, api_key, model, duration, input_image, config_kwargs,
                   reference_images, generate_kwargs, operation, i, saved, opened,
                   submits, waits, fetches, writes>>

\* model = resolve_model(args.model)
ResolveModel ==
    /\ pc = "resolve_model"
    /\ model' = resolve_model(args.model)
    /\ pc' = "duration"
    /\ UNCHANGED <<argv, environ, api_key, duration, input_image, config_kwargs,
                   reference_images, generate_kwargs, operation, i, saved, opened,
                   submits, waits, fetches, writes, stdout, stderr, raised, exit_code>>

\* duration = nearest_valid_duration(args.duration), with a note when it
\* differs from what was asked for.
SnapDuration ==
    /\ pc = "duration"
    /\ \E order \in SetIterationOrders :
          duration' = nearest_valid_duration(order, args.duration)
    /\ stdout' = IF duration' # args.duration
                 THEN Out("duration_rounded", duration')
                 ELSE stdout
    /\ pc' = "input_image"
    /\ UNCHANGED <<argv, environ, api_key, model, input_image, config_kwargs,
                   reference_images, generate_kwargs, operation, i, saved, opened,
                   submits, waits, fetches, writes, stderr, raised, exit_code>>

\* if args.input_image: input_image = load_image(args.input_image)
LoadInputImage ==
    /\ pc = "input_image"
    /\ IF Truthy(args.input_image)
       THEN /\ opened' = Append(opened, args.input_image[1])
            /\ \E readable \in BOOLEAN :
                  IF readable
                  THEN /\ input_image' = Some(load_image(args.input_image[1]))
                       /\ pc' = "config"
                       /\ UNCHANGED <<exit_code, stderr, raised>>
                  ELSE /\ Raise("load_image")
                       /\ UNCHANGED input_image
       ELSE /\ pc' = "config"
            /\ UNCHANGED <<input_image, opened, exit_code, stderr, raised>>
    /\ UNCHANGED <<argv, environ, api_key, model, duration, config_kwargs,
                   reference_images, generate_kwargs, operation, i, saved,
                   submits, waits, fetches, writes, stdout>>

\* config_kwargs = {...} and the optional entries, lines 152-168.
BuildConfig ==
    /\ pc = "config"
    /\ config_kwargs' = Config(args, model, duration)
    /\ pc' = "element"
    /\ UNCHANGED <<argv, environ, api_key, model, duration, input_image,
                   reference_images, generate_kwargs, operation, i, saved, opened,
                   submits, waits, fetches, writes, stdout, stderr, raised, exit_code>>

\* A handler slip: an unreadable reference is noted and the loop goes on
\* with a reference that has no image.
LoadReference_CatchesUnreadable(path, kind, next) ==
    /\ opened' = Append(opened, path)
    /\ \E readable \in BOOLEAN :
          /\ reference_images' =
                 Append(reference_images,
                        [image |-> IF readable THEN load_image(path) ELSE None,
                         reference_type |-> kind])
          /\ raised' = IF readable THEN raised ELSE "load_image"
          /\ pc' = next
          /\ UNCHANGED <<exit_code, stderr>>

\* One pass of a reference loop: load the path, tag it with kind.
LoadReference(path, kind, next) ==
    /\ opened' = Append(opened, path)
    /\ \E readable \in BOOLEAN :
          IF readable
          THEN /\ reference_images' =
                      Append(reference_images,
                             [image |-> load_image(path), reference_type |-> kind])
               /\ pc' = next
               /\ UNCHANGED <<exit_code, stderr, raised>>
          ELSE /\ Raise("load_image")
               /\ UNCHANGED reference_images

\* for path in (args.element or []): ... ASSET
LoadElement ==
    /\ pc = "element"
    /\ IF Len(reference_images) < Len(Elements(args))
       THEN LoadReference(Elements(args)[Len(reference_images) + 1], "ASSET", "element")
       ELSE /\ pc' = "style"
            /\ UNCHANGED <<reference_images, opened, exit_code, stderr, raised>>
    /\ UNCHANGED <<argv, environ, api_key, model, duration, input_image, config_kwargs,
                   generate_kwargs, operation, i, saved,
                   submits, waits, fetches, writes, stdout>>

\* for path in (args.style or []): ... STYLE, then
\* if reference_images: config_kwargs["reference_images"] = reference_images
LoadStyle ==
    /\ pc = "style"
    /\ LET k == Len(reference_images) - Len(Elements(args))
       IN  IF k < Len(Styles(args))
           THEN /\ LoadReference(Styles(args)[k + 1], "STYLE", "style")
                /\ UNCHANGED config_kwargs
           ELSE /\ config_kwargs' =
                       IF reference_images # <<>>
                       THEN config_kwargs @@ [reference_images |-> reference_images]
                       ELSE config_kwargs
                /\ pc' = "submit"
                /\ UNCHANGED <<reference_images, opened, exit_code, stderr, raised>>
    /\ UNCHANGED <<argv, environ, api_key, model, duration, input_image,
                   generate_kwargs, operation, i, saved,
                   submits, waits, fetches, writes, stdout>>

\* A retry slip: a rejected submission is caught and submitted again.
Submit_RetriesRejected ==
    /\ pc = "submit"
    /\ submits < MaxPolls
    /\ generate_kwargs' =
           Some([model |-> model, prompt |-> args.prompt, config |-> config_kwargs]
                @@ (IF input_image # None THEN [image |-> input_image[1]] ELSE EmptyDict))
    /\ submits' = submits + 1
    /\ \/ /\ \E op \in Operations : operation' = Some(op)
          /\ pc' = "poll"
          /\ UNCHANGED raised
       \/ /\ raised' = "generate_videos"
          /\ UNCHANGED <<operation, pc>>
    /\ UNCHANGED <<argv, environ, api_key, model, duration, input_image, config_kwargs,
                   reference_images, i, saved, opened, waits, fetches, writes, stdout,
                   stderr, exit_code>>

\* An ordering slip: the output file is created, empty, when the request
\* is submitted.
Submit_CreatesOutputFile ==
    /\ pc = "submit"
    /\ generate_kwargs' =
           Some([model |-> model, prompt |-> args.prompt, config |-> config_kwargs]
                @@ (IF input_image # None THEN [image |-> input_image[1]] ELSE EmptyDict))
    /\ submits' = submits + 1
    /\ writes' = Append(writes, [path |-> args.filename, item |-> 0, via |-> "bytes",
                                 from |-> <<>>, ok |-> TRUE])
    /\ \/ /\ \E op \in Operations : operation' = Some(op)
          /\ pc' = "poll"
          /\ UNCHANGED <<exit_code, stderr, raised>>
       \/ /\ Raise("generate_videos")
          /\ UNCHANGED operation
    /\ UNCHANGED <<argv, environ, api_key, model, duration, input_image, config_kwargs,
                   reference_images, i, saved, opened, waits, fetches, stdout>>

\* operation = client.models.generate_videos(**generate_kwargs)
Submit ==
    /\ pc = "submit"
    /\ generate_kwargs' =
           Some([model |-> model, prompt |-> args.prompt, config |-> config_kwargs]
                @@ (IF input_image # None THEN [image |-> input_image[1]] ELSE EmptyDict))
    /\ submits' = submits + 1
    /\ \/ /\ \E op \in Operations : operation' = Some(op)
          /\ pc' = "poll"
          /\ UNCHANGED <<exit_code, stderr, raised>>
       \/ /\ Raise("generate_videos")
          /\ UNCHANGED operation
    /\ UNCHANGED <<argv, environ, api_key, model, duration, input_image, config_kwargs,
                   reference_images, i, saved, opened, waits, fetches, writes, stdout>>

\* A loop slip: the wait does not test operation.done (a do-while).
PollWait_IgnoresDone ==
    /\ pc = "poll"
    /\ waits < MaxPolls
    /\ waits' = waits + 1
    /\ pc' = "get"
    /\ UNCHANGED <<argv, environ, api_key, model, duration, input_image, config_kwargs,
                   reference_images, generate_kwargs, operation, i, saved, opened,
                   submits, fetches, writes, stdout, stderr, raised, exit_code>>

\* while not operation.done: time.sleep(5)
PollWait ==
    /\ pc = "poll"
    /\ ~operation[1].done
    /\ waits < MaxPolls
    /\ waits' = waits + 1
    /\ pc' = "get"
    /\ UNCHANGED <<argv, environ, api_key, model, duration, input_image, config_kwargs,
                   reference_images, generate_kwargs, operation, i, saved, opened,
                   submits, fetches, writes, stdout, stderr, raised, exit_code>>

\* A retry slip: a fetch that raised is noted and the loop goes round again.
PollFetch_RetriesFailed ==
    /\ pc = "get"
    /\ fetches' = fetches + 1
    /\ \/ /\ \E op \in Operations : operation' = Some(op)
          /\ UNCHANGED raised
       \/ /\ raised' = "operations.get"
          /\ UNCHANGED operation
    /\ pc' = "poll"
    /\ UNCHANGED <<argv, environ, api_key, model, duration, input_image, config_kwargs,
                   reference_images, generate_kwargs, i, saved, opened,
                   submits, waits, writes, stdout, stderr, exit_code>>

\* operation = client.operations.get(operation)
PollFetch ==
    /\ pc = "get"
    /\ fetches' = fetches + 1
    /\ \/ /\ \E op \in Operations : operation' = Some(op)
          /\ pc' = "poll"
          /\ UNCHANGED <<exit_code, stderr, raised>>
       \/ /\ Raise("operations.get")
          /\ UNCHANGED operation
    /\ UNCHANGED <<argv, environ, api_key, model, duration, input_image, config_kwargs,
                   reference_images, generate_kwargs, i, saved, opened,
                   submits, waits, writes, stdout>>

\* The loop ends; exit 1 when the finished operation has no videos.
CheckResults ==
    /\ pc = "poll"
    /\ operation[1].done
    /\ IF NoResults(operation[1])
       THEN /\ Exit(1)
            /\ stderr' = Err("no_videos_generated", 0)
       ELSE /\ pc' = "videos"
            /\ UNCHANGED <<exit_code, stderr>>
    /\ UNCHANGED <<argv, environ, api_key, model, duration, input_image, config_kwargs,
                   reference_images, generate_kwargs, operation, i, saved, opened,
                   submits, waits, fetches, writes, stdout, raised>>

\* One pass of for i, video in enumerate(...): write the bytes, fetch the
\* URI, or report the video as having no data.
ResolveItem ==
    /\ pc = "videos"
    /\ i < Len(GeneratedVideos(operation[1]))
    /\ LET v == GeneratedVideos(operation[1])[i + 1]
           out == OutPath(args.filename, args.count, i)
           from == IF ItemCase(v) = "bytes"
                   THEN v.video_bytes[1]
                   ELSE FetchUrl(v.uri[1], api_key[1])
       IN  IF ItemCase(v) = "none"
           THEN /\ stderr' = Err("no_video_data", i + 1)
                /\ i' = AfterSkip(i, Len(GeneratedVideos(operation[1])))
                /\ UNCHANGED <<pc, saved, writes, stdout, raised, exit_code>>
           ELSE \E ok \in BOOLEAN :
                   /\ writes' = Append(writes, [path |-> out, item |-> i + 1,
                                                via |-> ItemCase(v), from |-> from,
                                                ok |-> ok])
                   /\ IF ok
                      THEN /\ saved' = Append(saved, out)
                           /\ stdout' = Out("saved", i + 1)
                           /\ i' = i + 1
                           /\ UNCHANGED <<pc, stderr, raised, exit_code>>
                      ELSE /\ Raise(IF ItemCase(v) = "bytes" THEN "open" ELSE "urlretrieve")
                           /\ UNCHANGED <<i, saved, stdout>>
    /\ UNCHANGED <<argv, environ, api_key, model, duration, input_image, config_kwargs,
                   reference_images, generate_kwargs, operation, opened,
                   submits, waits, fetches>>

\* After the loop: print the saved path or paths; main() returns.
Report ==
    /\ pc = "videos"
    /\ i >= Len(GeneratedVideos(operation[1]))
    /\ stdout' = IF Len(saved) = 1 THEN Out("output", 1) ELSE Out("outputs", Len(saved))
    /\ Exit(0)
    /\ UNCHANGED <<argv, environ, api_key, model, duration, input_image, config_kwargs,
                   reference_images, generate_kwargs, operation, i, saved, opened,
                   submits, waits, fetches, writes, stderr, raised>>

Next ==
    \/ ParseCommandLine
    \/ ResolveCredential
    \/ CreateClient
    \/ ListModels
    \/ ResolveModel
    \/ SnapDuration
    \/ LoadInputImage
    \/ BuildConfig
    \/ LoadElement
    \/ LoadStyle
    \/ Submit
    \/ PollWait
    \/ PollFetch
    \/ CheckResults
    \/ ResolveItem
    \/ Report

Spec == Init /\ [][Next]_vars

(***************************************************************************)
(* Vocabulary of the properties.                                           *)
(***************************************************************************)
\* The command line was accepted by the parser.
Parsed == ~ParseFails(argv)

\* An optional string is given: neither None nor empty.
Present(o) == o # None /\ o[1] # <<>>

\* The operation has been observed done.
Done == operation # None /\ operation[1].done

\* The result list of a done operation, <<>> when the response or its list
\* is absent.
ResultList ==
    IF operation[1].response = None THEN <<>>
    ELSE IF operation[1].response[1].generated_videos = None THEN <<>>
    ELSE operation[1].response[1].generated_videos[1]

\* A video has something to save: non-empty inline bytes, or a URI.
HasData(v) == Present(v.video_bytes) \/ Present(v.uri)

\* The 1-based positions, in order, of the first n results that have data,
\* and of those that have none.
DataItems(n) ==
    LET test(k) == HasData(ResultList[k]) IN SelectSeq([k \in 1..n |-> k], test)

EmptyItems(n) ==
    LET test(k) == ~HasData(ResultList[k]) IN SelectSeq([k \in 1..n |-> k], test)

\* The positions named by the per-item "no video data" errors, in order.
ItemErrors ==
    LET test(e) == e.msg = "no_video_data"
        errs == SelectSeq(stderr, test)
    IN  [k \in 1..Len(errs) |-> errs[k].n]

\* The positions of the videos whose file was completely written, in order.
SavedItems ==
    LET test(w) == w.ok
        done == SelectSeq(writes, test)
    IN  [k \in 1..Len(done) |-> done[k].item]

Mp4 == <<".", "m", "p", "4">>

Veo2Prefix == <<"v", "e", "o", "-", "2">>

(***************************************************************************)
(* C1.  If a completed operation returns a non-empty result list of which  *)
(* no item is saved (every item has neither inline bytes nor a URI), the   *)
(* run exits with a non-zero status.                                       *)
(***************************************************************************)
C1_NothingSavedExitsNonZero ==
    (/\ pc = "exit"
     /\ Done
     /\ ResultList # <<>>
     /\ \A k \in 1..Len(ResultList) : ~HasData(ResultList[k]))
    => exit_code # Some(0)

(***************************************************************************)
(* C2.  At the statement after the call of nearest_valid_duration, a       *)
(* requested duration of 5 has become 4 and a requested duration of 7 has  *)
(* become 6: a tie goes to the lower permitted value.                      *)
(***************************************************************************)
C2_TieGoesToLower ==
    pc = "input_image" =>
        /\ args.duration = 5 => duration = 4
        /\ args.duration = 7 => duration = 6

(***************************************************************************)
(* C3.  The duration_seconds of the submitted request is a permitted       *)
(* duration at the least distance from the requested one, whatever integer *)
(* was requested; a requested value that is not permitted is never sent.   *)
(***************************************************************************)
C3_SubmittedDurationIsNearest ==
    generate_kwargs # None =>
        LET sent == generate_kwargs[1].config.duration_seconds
        IN  /\ sent \in VALID_DURATIONS
            /\ \A x \in VALID_DURATIONS :
                   Abs(sent - args.duration) <= Abs(x - args.duration)
            /\ args.duration \notin VALID_DURATIONS => sent # args.duration

\* A request was submitted for a requested duration of zero or less.
C3_NonPositiveDurationSubmitted ==
    /\ generate_kwargs # None
    /\ args.duration <= 0
    /\ generate_kwargs[1].config.duration_seconds = 4

(***************************************************************************)
(* C4.  Once the operation is done with an absent response or an empty     *)
(* list of videos, the run can only end with the "no videos" error and     *)
(* exit status 1, and no output file is written or fetched.                *)
(***************************************************************************)
C4_NoResultsEndsInError ==
    (Done /\ ResultList = <<>>) =>
        /\ writes = <<>>
        /\ saved = <<>>
        /\ pc \in {"poll", "exit"}
        /\ pc = "exit" =>
               /\ exit_code = Some(1)
               /\ raised = ""
               /\ stderr = <<[msg |-> "no_videos_generated", n |-> 0]>>

\* The run has ended on an operation that finished with an empty list.
C4_ExitedOnEmptyList ==
    /\ pc = "exit"
    /\ Done
    /\ operation[1].response # None
    /\ operation[1].response[1].generated_videos = Some(<<>>)
    /\ exit_code = Some(1)

C6_OutputPathRule ==
    writes # <<>> =>
        LET f == args.filename
            count == args.count
            ext == IF PathSuffix(f) # <<>> THEN PathSuffix(f) ELSE Mp4
            single == IF PathSuffix(f) # <<>> THEN f ELSE f \o Mp4
            numbered(n) == PathJoin(PathParent(f), PathStem(f) \o <<"-">> \o IntToStr(n) \o ext)
        IN  \A k \in 1..Len(writes) :
                /\ count = 1 => writes[k].path = single
                /\ count > 1 => writes[k].path = numbered(writes[k].item)
                /\ (count > 1 /\ f = <<"c", "l", "i", "p", ".", "m", "p", "4">>
                    /\ writes[k].item = 2) =>
                       writes[k].path = <<"c", "l", "i", "p", "-", "2", ".", "m", "p", "4">>
                /\ (count = 1 /\ f = <<"o", "u", "t">>) =>
                       writes[k].path = <<"o", "u", "t", ".", "m", "p", "4">>
                /\ (count = 1 /\ f = <<"o", "u", "t", ".", "w", "e", "b", "m">>) =>
                       writes[k].path = f

\* With a count above 1 and a path without extension in a directory, the
\* second item has been written.
C6_SecondNumberedFileWritten ==
    /\ Parsed
    /\ args.count > 1
    /\ args.filename = <<"d", "/", "o", "u", "t">>
    /\ Len(writes) >= 1
    /\ writes[Len(writes)].item = 2
    /\ writes[Len(writes)].path = <<"d", "/", "o", "u", "t", "-", "2", ".", "m", "p", "4">>

(***************************************************************************)
(* C7.  The request is submitted at most once.  Every status fetch is      *)
(* preceded by exactly one wait of its own and happens only while the      *)
(* operation last observed is not done; an operation that is done at       *)
(* submission causes no wait and no fetch; and once the operation has been *)
(* observed done it is not waited for, fetched or replaced again.          *)
(***************************************************************************)
C7_SubmitOncePollWhileNotDone ==
    /\ [](/\ submits <= 1
          /\ waits = fetches + (IF pc = "get" THEN 1 ELSE 0)
          /\ pc = "get" => (operation # None /\ ~operation[1].done)
          /\ (Done /\ fetches = 0) => waits = 0)
    /\ [][/\ fetches' # fetches =>
               (operation # None /\ ~operation[1].done /\ fetches' = fetches + 1
                /\ waits = fetches + 1)
          /\ Done => (fetches' = fetches /\ waits' = waits /\ submits' = submits
                      /\ operation' = operation)]_vars

\* The operation was fetched twice and then found done, with results.
C7_DoneAfterTwoFetches ==
    /\ pc = "videos"
    /\ fetches = 2
    /\ waits = 2
    /\ submits = 1

(***************************************************************************)
(* C8.  When the remote service rejects the submission, the run is over:   *)
(* exit status 1, one submission, no status fetch, no output file.         *)
(***************************************************************************)
C8_RejectedSubmissionEndsRun ==
    raised = "generate_videos" =>
        /\ pc = "exit"
        /\ exit_code = Some(1)
        /\ submits = 1
        /\ waits = 0
        /\ fetches = 0
        /\ operation = None
        /\ writes = <<>>
        /\ saved = <<>>

\* The submission of a request that carries reference images was rejected.
C8_SubmissionRejected ==
    /\ raised = "generate_videos"
    /\ pc = "exit"
    /\ submits = 1
    /\ generate_kwargs # None
    /\ "reference_images" \in DOMAIN generate_kwargs[1].config

(***************************************************************************)
(* C9.  config_kwargs and the submitted request hold the enhance_prompt    *)
(* key only for a resolved model of the veo-2 family (an id that starts    *)
(* with "veo-2"); for every other resolved model, the veo-3.x ids of the   *)
(* alias table and any name passed through, the key is absent.             *)
(***************************************************************************)
C9_EnhancePromptOnlyForVeo2 ==
    /\ "enhance_prompt" \in DOMAIN config_kwargs => StartsWith(model, Veo2Prefix)
    /\ generate_kwargs # None =>
           /\ generate_kwargs[1].model = model
           /\ "enhance_prompt" \in DOMAIN generate_kwargs[1].config =>
                  /\ StartsWith(generate_kwargs[1].model, Veo2Prefix)
                  /\ generate_kwargs[1].config.enhance_prompt = TRUE
           /\ generate_kwargs[1].model \in {Veo31Fast, Veo31, Veo30, Veo30Fast} =>
                  "enhance_prompt" \notin DOMAIN generate_kwargs[1].config

\* A request for a veo-3 model reached through an alias in capitals was
\* submitted without the key.
C9_Veo3RequestOmitsEnhancePrompt ==
    /\ generate_kwargs # None
    /\ args.model = <<"Q", "u", "a", "l", "i", "t", "y">>
    /\ generate_kwargs[1].model = Veo31
    /\ "enhance_prompt" \notin DOMAIN generate_kwargs[1].config

(***************************************************************************)
(* C10.  The credential in use is the --api-key argument when one is       *)
(* given and the GEMINI_API_KEY environment variable otherwise.  When      *)
(* neither is given and the run is not --list-models, the run exits with   *)
(* status 1 right after resolving the credential: no image is opened, no   *)
(* request submitted, no status fetched and no file written.               *)
(***************************************************************************)
C10_CredentialResolution ==
    Parsed =>
        /\ pc \notin {"parse_args", "api_key"} =>
               api_key = IF Present(args.api_key)
                         THEN args.api_key
                         ELSE Get(environ, "GEMINI_API_KEY")
        /\ (/\ ~Present(args.api_key)
            /\ ~Present(Get(environ, "GEMINI_API_KEY"))
            /\ ~args.list_models) =>
               /\ pc \in {"parse_args", "api_key", "exit"}
               /\ pc = "exit" =>
                      /\ exit_code = Some(1)
                      /\ stderr = <<[msg |-> "no_api_key", n |-> 0]>>
               /\ opened = <<>>
               /\ submits = 0
               /\ fetches = 0
               /\ writes = <<>>

\* A run without any credential has exited with the missing-key error.
C10_ExitedWithoutCredential ==
    /\ Parsed
    /\ args.api_key = Some(<<>>)
    /\ "GEMINI_API_KEY" \notin DOMAIN environ
    /\ pc = "exit"
    /\ exit_code = Some(1)
    /\ stderr = <<[msg |-> "no_api_key", n |-> 0]>>

(***************************************************************************)
(* The model resolver on its own: the run up to the statement after        *)
(* model = resolve_model(args.model), for --model written as every alias   *)
(* in every letter case and as names that are no alias.                    *)
(***************************************************************************)
\* The upper-case letter of a lower-case letter, any other character as is.
UpperOf(c) ==
    IF \E k \in 1..Len(LowerCase) : LowerCase[k] = c
    THEN UpperCase[CHOOSE k \in 1..Len(LowerCase) : LowerCase[k] = c]
    ELSE c

\* Every way of writing the string a in upper- and lower-case letters.
Spellings(a) ==
    {[k \in 1..Len(a) |-> IF k \in caps THEN UpperOf(a[k]) ELSE a[k]] :
        caps \in SUBSET (1..Len(a))}

AliasSpellings == UNION {Spellings(MODEL_ALIASES[k][1]) : k \in 1..Len(MODEL_ALIASES)}

\* Names that are no alias in any case: full ids, ids in capitals, an alias
\* with a character more or less, an alias with a blank.
OtherNames ==
    Models \cup Spellings(<<"f", "a", "s", "t", "x">>) \cup Spellings(<<"f", "a", "s">>)
    \cup {Veo31, Veo31Fast, Veo30Fast, <<" ", "f", "a", "s", "t">>, <<"3", ".", "2">>,
          <<"V", "E", "O", "-", "3", ".", "0", "-", "G", "E", "N", "E", "R", "A", "T", "E", "-", "0", "0", "1">>}

ResolverInit ==
    /\ argv \in {With(PlainLine, "model", m) : m \in AliasSpellings \cup OtherNames}
    /\ environ = [x \in {} |-> None]
    /\ InitLocals

ResolverNext ==
    \/ ParseCommandLine
    \/ ResolveCredential
    \/ CreateClient
    \/ ResolveModel

ResolverSpec == ResolverInit /\ [][ResolverNext]_vars

\* name is the string a up to the case of its letters.
SameUpToCase(name, a) ==
    /\ Len(name) = Len(a)
    /\ \A k \in 1..Len(a) :
           \/ name[k] = a[k]
           \/ \E j \in 1..Len(LowerCase) :
                  {name[k], a[k]} = {LowerCase[j], UpperCase[j]}

(***************************************************************************)
(* C11.  At the statement after model = resolve_model(args.model): when    *)
(* --model is an alias of the table written in any letter case, model is   *)
(* the id the table maps that alias to; when it is not, model is the       *)
(* string given, letter for letter.  The resolver does not fail.           *)
(***************************************************************************)
C11_ResolveModel ==
    pc = "duration" =>
        LET name == args.model
            hits == {k \in 1..Len(MODEL_ALIASES) : SameUpToCase(name, MODEL_ALIASES[k][1])}
        IN  /\ \A k \in hits : model = MODEL_ALIASES[k][2]
            /\ hits = {} => model = name
            /\ raised = ""
            /\ exit_code = None

\* --model qUaLiTy has been resolved to the veo-3.1 quality id.
C11_MixedCaseAliasResolved ==
    /\ pc = "duration"
    /\ args.model = <<"q", "U", "a", "L", "i", "T", "y">>
    /\ model = Veo31

\* The image files the command line names, in the order the loads are
\* written: the source image, the element references, the style references.
ImagePaths ==
    (IF "input_image" \in DOMAIN argv THEN <<argv.input_image>> ELSE <<>>)
    \o (IF "element" \in DOMAIN argv THEN argv.element ELSE <<>>)
    \o (IF "style" \in DOMAIN argv THEN argv.style ELSE <<>>)

\* The request has been neither submitted nor polled, and nothing was written.
NothingSent ==
    /\ submits = 0
    /\ generate_kwargs = None
    /\ operation = None
    /\ waits = 0
    /\ fetches = 0
    /\ writes = <<>>
    /\ saved = <<>>

(***************************************************************************)
(* C12.  The image files are read in the order source image, elements,     *)
(* styles; once the request has been submitted every one of them has been  *)
(* read; and when a read fails the run has ended with status 1 at that     *)
(* file, with no submission, no poll and no output file.                   *)
(***************************************************************************)
C12_LoadsBeforeSubmitOrAbort ==
    /\ Len(opened) <= Len(ImagePaths)
    /\ opened = SubSeq(ImagePaths, 1, Len(opened))
    /\ submits > 0 => opened = ImagePaths
    /\ raised = "load_image" =>
           /\ pc = "exit"
           /\ exit_code = Some(1)
           /\ NothingSent

\* The source image and an element were read, a style reference was not.
C12_StyleUnreadableAfterTwoLoads ==
    /\ raised = "load_image"
    /\ Len(opened) = 3
    /\ "style" \in DOMAIN argv
    /\ exit_code = Some(1)

\* The command line of the documented example: --list-models, with neither
\* --prompt nor --filename.
ListModelsExample ==
    /\ "list_models" \in DOMAIN argv
    /\ "prompt" \notin DOMAIN argv
    /\ "filename" \notin DOMAIN argv

\* The alias table has been printed.
AliasesListed == \E k \in 1..Len(stdout) : stdout[k].msg = "aliases"

(***************************************************************************)
(* C13.  A run of the documented example --list-models in which no remote  *)
(* call raised ends with the models and the alias table listed and status  *)
(* 0, whether or not a credential was given, and without submitting,       *)
(* polling or writing.                                                     *)
(***************************************************************************)
C13_ListModelsExampleLists ==
    /\ ListModelsExample => NothingSent
    /\ (ListModelsExample /\ pc = "exit" /\ raised = "") =>
           /\ AliasesListed
           /\ exit_code = Some(0)

\* A warning (not an error) about the option o is on stderr.
Warned(o) == \E k \in 1..Len(stderr) : stderr[k] = [msg |-> "warning", n |-> o]

(***************************************************************************)
(* C14.  A run given a last-frame image is not rejected for it: the        *)
(* command line is accepted, the request that is submitted carries no      *)
(* last-frame field, and a run that has ended has warned about the option. *)
(***************************************************************************)
C14_LastFrameWarnedAndDropped ==
    "last_frame" \in DOMAIN argv =>
        /\ exit_code # Some(2)
        /\ generate_kwargs # None =>
               "last_frame" \notin DOMAIN generate_kwargs[1].config
        /\ pc = "exit" => Warned("last_frame")

(***************************************************************************)
(* The poll loop for as long as the service keeps answering "not done":    *)
(* the run of main() with the loop of lines 207-210 free to go round       *)
(* without end.  The counters waits and fetches stop counting at MaxPolls; *)
(* the loop does not stop there.                                           *)
(***************************************************************************)
UpTo(n, max) == IF n < max THEN n + 1 ELSE max

\* A timeout slip: the loop gives up after MaxPolls waits.
PollSleep_GivesUp ==
    /\ pc = "poll"
    /\ ~operation[1].done
    /\ IF waits < MaxPolls
       THEN /\ waits' = waits + 1
            /\ pc' = "get"
            /\ UNCHANGED <<exit_code, stderr>>
       ELSE /\ Exit(1)
            /\ stderr' = Err("timed_out", 0)
            /\ UNCHANGED waits
    /\ UNCHANGED <<argv, environ, api_key, model, duration, input_image, config_kwargs,
                   reference_images, generate_kwargs, operation, i, saved, opened,
                   submits, fetches, writes, stdout, raised>>

\* while not operation.done: time.sleep(5)
PollSleep ==
    /\ pc = "poll"
    /\ ~operation[1].done
    /\ waits' = UpTo(waits, MaxPolls)
    /\ pc' = "get"
    /\ UNCHANGED <<argv, environ, api_key, model, duration, input_image, config_kwargs,
                   reference_images, generate_kwargs, operation, i, saved, opened,
                   submits, fetches, writes, stdout, stderr, raised, exit_code>>

\* operation = client.operations.get(operation)
PollGet ==
    /\ pc = "get"
    /\ fetches' = UpTo(fetches, MaxPolls)
    /\ \/ /\ \E op \in Operations : operation' = Some(op)
          /\ pc' = "poll"
          /\ UNCHANGED <<exit_code, stderr, raised>>
       \/ /\ Raise("operations.get")
          /\ UNCHANGED operation
    /\ UNCHANGED <<argv, environ, api_key, model, duration, input_image, config_kwargs,
                   reference_images, generate_kwargs, i, saved, opened,
                   submits, waits, writes, stdout>>

\* One video or MaxCount videos asked for, nothing else varied.
PollerInit ==
    /\ argv \in {With(PlainLine, "count", c) : c \in {1, MaxCount}}
    /\ environ = [x \in {} |-> None]
    /\ InitLocals

PollerNext ==
    \/ ParseCommandLine
    \/ ResolveCredential
    \/ CreateClient
    \/ ResolveModel
    \/ SnapDuration
    \/ LoadInputImage
    \/ BuildConfig
    \/ LoadElement
    \/ LoadStyle
    \/ Submit
    \/ PollSleep
    \/ PollGet
    \/ CheckResults
    \/ ResolveItem
    \/ Report

\* main() is one thread: as long as it has a next statement, it executes it,
\* and every call it makes returns or raises.
PollerSpec == PollerInit /\ [][PollerNext]_vars /\ WF_vars(PollerNext)

\* The request was accepted and the operation has not been seen done.
Pending == operation # None /\ ~operation[1].done

(***************************************************************************)
(* C15.  Once the operation is seen done the run leaves the poll loop and  *)
(* ends.  In a run whose operation stays not done from some point on, with *)
(* no call raising, the status is fetched again and again without end:     *)
(* the run never ends and never writes a file.                             *)
(***************************************************************************)
C15_PollsUntilDoneAndOnlyUntilDone ==
    /\ Done ~> (pc = "exit")
    /\ <>[](Pending /\ raised = "") =>
           /\ []<>(pc = "get")
           /\ []<>(pc = "poll")
           /\ [](pc # "exit")
           /\ [](writes = <<>>)

\* The status has been fetched MaxPolls times and the poller waits again.
C15_StillPollingAfterMaxPolls ==
    /\ pc = "get"
    /\ fetches = MaxPolls
    /\ waits = MaxPolls
    /\ Pending

\* A status fetch has raised.
FetchFailed == raised = "operations.get"

(***************************************************************************)
(* C16.  When a status fetch raises, the run has ended with status 1, the  *)
(* request was submitted once, nothing was written or saved, and from then *)
(* on there is no fetch, no submission and no write.                       *)
(***************************************************************************)
C16_FailedFetchEndsRun ==
    /\ [](FetchFailed =>
             /\ pc = "exit"
             /\ exit_code = Some(1)
             /\ submits = 1
             /\ writes = <<>>
             /\ saved = <<>>)
    /\ [][FetchFailed =>
             /\ fetches' = fetches
             /\ submits' = submits
             /\ writes' = writes]_vars

\* The first fetch answered "not done", the second one raised.
C16_SecondFetchFailed ==
    /\ FetchFailed
    /\ fetches = 2
    /\ waits = 2
    /\ exit_code = Some(1)

\* The poll loop has been left with a done operation that has videos.
ResultsInHand ==
    /\ submits = 1
    /\ Done
    /\ ResultList # <<>>
    /\ pc \in {"videos", "exit"}

(***************************************************************************)
(* C17.  Whenever an output file has been opened for writing or fetched,   *)
(* the request had been submitted and accepted and the poll loop had been  *)
(* left with a done operation whose result list is not empty; and every    *)
(* step that writes or fetches a file is taken in such a state.            *)
(***************************************************************************)
C17_WritesOnlyAfterDone ==
    /\ [](writes # <<>> => ResultsInHand /\ raised \notin {"generate_videos", "operations.get"})
    /\ [][writes' # writes => ResultsInHand /\ pc = "videos" /\ fetches' = fetches]_vars

\* One file has been written after the operation went from not done to done.
C17_WrittenAfterNotDoneThenDone ==
    /\ Len(writes) = 1
    /\ writes[1].ok
    /\ waits = 1
    /\ fetches = 1
    /\ saved = <<OutMp4>>

\* The writes and fetches made for the video at position k.
WritesOf(k) == {n \in 1..Len(writes) : writes[n].item = k}

(***************************************************************************)
(* C18.  Of the videos of the result list: one with inline bytes is        *)
(* written once, from those bytes, and nothing is fetched for it even when *)
(* it has a URI too; one with a URI and no inline bytes is fetched once,   *)
(* from that URI; one with neither is reported on stderr and nothing is    *)
(* written for it; and none that has bytes or a URI is reported.           *)
(***************************************************************************)
C18_BytesThenUriThenSkip ==
    (Done /\ pc \in {"videos", "exit"} /\ ResultList # <<>>) =>
        /\ \A n \in 1..Len(writes) :
               LET w == writes[n]
                   v == ResultList[w.item]
               IN  /\ WritesOf(w.item) = {n}
                   /\ IF Present(v.video_bytes)
                      THEN w.via = "bytes" /\ w.from = v.video_bytes[1]
                      ELSE /\ Present(v.uri)
                           /\ w.via = "uri"
                           /\ SubSeq(w.from, 1, Len(v.uri[1])) = v.uri[1]
        /\ \A k \in 1..i :
               IF HasData(ResultList[k])
               THEN WritesOf(k) # {} /\ \A e \in 1..Len(ItemErrors) : ItemErrors[e] # k
               ELSE WritesOf(k) = {} /\ \E e \in 1..Len(ItemErrors) : ItemErrors[e] = k

\* A video with both inline bytes and a URI was saved from its bytes, a
\* video with only a URI was fetched, and the run is over.
C18_BothGivenSavedFromBytes ==
    /\ pc = "exit"
    /\ exit_code = Some(0)
    /\ Len(writes) = 2
    /\ ResultList[writes[1].item] = [video_bytes |-> Some(VideoData), uri |-> Some(VideoUri)]
    /\ writes[1].via = "bytes"
    /\ writes[2].via = "uri"

\* The reference types of the request's reference_images, in order.
ReferenceTypes(refs) == [k \in 1..Len(refs) |-> refs[k].reference_type]

\* n times the string t.
Repeat(t, n) == [k \in 1..n |-> t]

\* The paths given with a repeatable option, in the order given.
Given(o) == IF o \in DOMAIN argv THEN argv[o] ELSE <<>>

(***************************************************************************)
(* C19.  In the request that is submitted, reference_images holds one      *)
(* entry per --element path, tagged ASSET, in the order given, followed by *)
(* one entry per --style path, tagged STYLE, in the order given, each with *)
(* the bytes of its file; the config has no reference_images entry when    *)
(* neither option was given.                                               *)
(***************************************************************************)
C19_ReferencesElementsThenStyles ==
    generate_kwargs # None =>
        LET config == generate_kwargs[1].config
            paths == Given("element") \o Given("style")
        IN  IF paths = <<>>
            THEN "reference_images" \notin DOMAIN config
            ELSE /\ "reference_images" \in DOMAIN config
                 /\ Len(config.reference_images) = Len(Given("element")) + Len(Given("style"))
                 /\ ReferenceTypes(config.reference_images) =
                        Repeat("ASSET", Len(Given("element"))) \o Repeat("STYLE", Len(Given("style")))
                 /\ \A k \in 1..Len(paths) :
                        config.reference_images[k].image.image_bytes = paths[k]

\* A request with two element references and two style references was sent.
C19_TwoElementsTwoStylesSubmitted ==
    /\ submits = 1
    /\ Len(Given("element")) = 2
    /\ Len(Given("style")) = 2
    /\ Len(generate_kwargs[1].config.reference_images) = 4

\* No element occurs twice in the sequence q.
NoDuplicates(q) == \A m, n \in 1..Len(q) : m # n => q[m] # q[n]

(***************************************************************************)
(* C20.  In one run no output path is written or fetched for two videos    *)
(* of the result list, and no path occurs twice in the saved list,         *)
(* whatever --count was and however many videos the service returned.      *)
(***************************************************************************)
C20_NoPathWrittenTwice ==
    /\ NoDuplicates([n \in 1..Len(writes) |-> writes[n].path])
    /\ NoDuplicates(saved)

====
